---- MODULE Spec2Model ----
(***************************************************************************)
(* arena-cache: one shard of the cache (index + CLOCK-Pro ring +           *)
(* generation ring), the Cache facade over it and the getOrLoad path.      *)
(*                                                                         *)
(* A Cache with shards = 1 is modelled: shards share no state, and         *)
(* Cache.Len / Cache.SizeBytes are sums over the shards.                   *)
(*                                                                         *)
(* Arena memory: a value pointer is the pair (arena id, stored value).     *)
(* The arena of a generation is valid while the generation occupies a ring *)
(* slot; Ring.Rotate frees the arena of the generation it overwrites.      *)
(* Reading through a pointer into a freed arena is undefined: the model    *)
(* lets the read return any value or fault.                                *)
(*                                                                         *)
(* New's argument validation and the loader coordinator (loaderGroup over  *)
(* singleflight), which no path of the cache calls, have specifications of *)
(* their own: SpecNew and SpecLoader.                                      *)
(*                                                                         *)
(* The CLOCK-Pro eviction loop is also run one hand visit per step         *)
(* (SpecHand); SpecShard, SpecEvict and SpecOneEntry are the shard under   *)
(* other mixes of calls, weights and capacities; SpecConc and SpecRace are *)
(* goroutines calling into one shard, step by step.                        *)
(***************************************************************************)
EXTENDS Integers, Sequences, FiniteSets, TLC

(* ---------------- bounds of the model ---------------- *)
NumKeys == 2
NumValues == 2
MaxWeight == 2
MaxOps == 3
MaxCalls == 2
MaxGenID == 6
NumProcs == 2
MaxCapArg == 2
MaxTtlArg == 2
MaxShardsArg == 16
MaxRaceCalls == 3

(* ---------------- program constants ---------------- *)
stateCold == 0
stateHot == 1
stateTest == 2
refBit == 128
Millisecond == 1000000
generations == 4
ReasonCapacity == 1
ReasonGeneration == 2
defaultGenerations == 4

Keys == 1..NumKeys
Values == 1..NumValues
Weights == 1..MaxWeight
Procs == 1..NumProcs
\* every call allocates at most one entry struct
EntIds == 1..MaxOps
Slots == 0..(defaultGenerations - 1)

\* newShard is given capBytes: a tiny cache (no per-generation split of the
\* budget) and the smallest cache whose budget is split over the generations
Capacities == {1, defaultGenerations}

\* shard.hash: a fingerprint of the key under the shard's random seed; under
\* seed 0 all keys collide, under seed 1 none do
Seeds == {0, 1}
hash(sd, k) == sd * k
Fingerprints == 0..NumKeys

VARIABLES
    capacity,    \* Clock.capacity = capBytes given to newShard
    seed,        \* shard.seed
    ejectCb,     \* Clock.ejectCb: whether an eject callback was configured
    index,       \* shard.index: fingerprint -> entry pointer (0 = absent)
    ents,        \* the heap of entry structs, by pointer
    ring,        \* Clock list of entry pointers, ring[1] is Clock.head
    size,        \* Clock.size
    gens,        \* Ring.gens: slot -> generation (NoGen = nil)
    activeIdx,   \* Ring.activeIdx
    idCtr,       \* Ring.idCtr
    hits,        \* shard.hits
    misses,      \* shard.misses
    evictions,   \* shard.evictions
    status,      \* "ok", "fault" (invalid memory access), "hang" (a call never returns),
                 \* "closed" (after Close), "panic" (nil pointer dereference)
    last,        \* the last completed call and what it returned
    lastPut,     \* key -> value of the most recent completed put (0 = none)
    rotsNoPut,   \* rotations since the last put, counted up to defaultGenerations
    nops,        \* get / put / delete / getOrLoad calls made so far
    ejects,      \* capacity evictions of the last inserting put, and the callback calls made for them
    pc,          \* per goroutine: position in its current call
    arg,         \* per goroutine: arguments of its current call
    pent,        \* per goroutine: local entry pointer (ent / old)
    pst,         \* per goroutine: state byte loaded by SetReferenced
    readers,     \* goroutines holding shard.mu.RLock
    ret,         \* per goroutine: what its last call returned
    ticks,       \* rotation periods elapsed (parity), for the TTL scenario
    newCall,     \* a call of New: its arguments and, once it returned, its result
    flight,      \* loaderGroup.g: key -> the singleflight call in flight
    lproc,       \* per goroutine: its call of loaderGroup.load / loadAsync
    fidCtr,      \* number of singleflight calls created so far
    gets         \* get / getOrLoad calls made on the shard so far

shardVars == <<capacity, seed, ejectCb, index, ents, ring, size, gens, activeIdx, idCtr,
               hits, misses, evictions, status>>
histVars == <<last, lastPut, rotsNoPut, nops, ejects>>
procVars == <<pc, arg, pent, pst, readers, ret>>
loadVars == <<flight, lproc, fidCtr>>
auxVars == <<newCall, loadVars, gets>>
vars == <<shardVars, histVars, procVars, ticks, auxVars>>

NoEnt == [key |-> 0, vptr |-> [arena |-> 0, val |-> 0], weight |-> 0,
          genID |-> 0, state |-> 0]
NoGen == [id |-> 0, bytes |-> 0]

(* ---------------- state byte (clockpro consts, bit operations) -------- *)
\* st & 0b11
StateBits(st) == st % 4
\* st & refBit != 0
HasRef(st) == st >= refBit
\* st &^ refBit
ClearRef(st) == st % refBit
\* SetReferenced: *b |= refBit
SetReferenced(st) == IF st >= refBit THEN st ELSE st + refBit
\* state & stateTest != 0
IsTest(st) == (st \div stateTest) % 2 = 1

(* ---------------- genring ---------------- *)
\* genring.New: perGenBytes = capBytes / defaultGenerations, capBytes when that is 0
perGenBytes(cap) ==
    IF cap \div defaultGenerations = 0 THEN cap ELSE cap \div defaultGenerations

\* Ring.Active
Active(gs, ai) == gs[ai]

\* a generation's arena is usable while the generation sits in a ring slot
Resident(gs, id) == id # 0 /\ \E s \in Slots : gs[s].id = id

\* Ring.CheckRotationNeeded: add delta to the active generation, compare with budget
AddBytes(gs, ai, delta) == [gs EXCEPT ![ai].bytes = @ + delta]
\* a check that lets the accumulator go one byte above the budget
CheckRotationNeededWithSlack(gs, ai, delta, cap) ==
    AddBytes(gs, ai, delta)[ai].bytes > perGenBytes(cap) + 1
CheckRotationNeeded(gs, ai, delta, cap) ==
    AddBytes(gs, ai, delta)[ai].bytes > perGenBytes(cap)

\* Ring.Rotate: the slot that is overwritten
NextIdx(ai) == (ai + 1) % defaultGenerations
\* a rotation that also frees the generation it leaves
RingRotateFreesActive(gs, ai, ctr) ==
    LET nextIdx == NextIdx(ai)
        newID == ctr + 1
    IN [gens |-> [gs EXCEPT ![nextIdx] = [id |-> newID, bytes |-> 0], ![ai] = NoGen],
        activeIdx |-> nextIdx,
        idCtr |-> newID,
        dead |-> gs[nextIdx].id]

\* a rotation that returns the generation it has just created
RingRotateReturnsFresh(gs, ai, ctr) ==
    LET nextIdx == NextIdx(ai)
        newID == ctr + 1
    IN [gens |-> [gs EXCEPT ![nextIdx] = [id |-> newID, bytes |-> 0]],
        activeIdx |-> nextIdx,
        idCtr |-> newID,
        dead |-> newID]

\* a rotation that reads the id counter without advancing it
RingRotateKeepsCounter(gs, ai, ctr) ==
    LET nextIdx == NextIdx(ai)
        newID == ctr
    IN [gens |-> [gs EXCEPT ![nextIdx] = [id |-> newID, bytes |-> 0]],
        activeIdx |-> nextIdx,
        idCtr |-> newID,
        dead |-> gs[nextIdx].id]

\* Ring.Rotate: [gens, activeIdx, idCtr, dead] after the rotation
RingRotate(gs, ai, ctr) ==
    LET nextIdx == NextIdx(ai)
        newID == ctr + 1
    IN [gens |-> [gs EXCEPT ![nextIdx] = [id |-> newID, bytes |-> 0]],
        activeIdx |-> nextIdx,
        idCtr |-> newID,
        dead |-> gs[nextIdx].id]

\* Ring.LiveBytes
RECURSIVE SumBytes(_, _)
SumBytes(gs, S) ==
    IF S = {} THEN 0
    ELSE LET s == CHOOSE x \in S : TRUE IN gs[s].bytes + SumBytes(gs, S \ {s})
LiveBytes == SumBytes(gens, Slots)

\* what the eviction loop of the last inserting put did
NoEjects == [evicted |-> <<>>, calls |-> <<>>]

(* ---------------- clockpro ---------------- *)
\* A Clock value is [ring, ents, size, hang]: the list from the hand, the entry
\* structs it points to, Clock.size, and whether the call never returns.
MkClock(r, es, sz) == [ring |-> r, ents |-> es, size |-> sz, hang |-> FALSE]

\* Clock.append: the new node goes to the tail, just before the head
ClockAppend(r, e) == Append(r, e)

\* Clock.remove: unlink the node at position i (the head moves on when it is the head)
ClockUnlink(r, i) == SubSeq(r, 1, i - 1) \o SubSeq(r, i + 1, Len(r))

\* a hand that looks at the state bits only and evicts referenced COLD entries
HandStateIgnoresRef(st) ==
    IF StateBits(st) = stateHot THEN stateCold ELSE stateTest

\* one visit of the hand at a HOT or COLD node: the new state byte
HandState(st) ==
    IF StateBits(st) = stateHot
    THEN (IF HasRef(st) THEN ClearRef(st) ELSE stateCold)
    ELSE (IF HasRef(st) THEN ClearRef(stateHot) ELSE stateTest)

\* a hand that turns entries into ghosts without taking their weight off size
HandFreedNothing(e) == 0

\* one visit of the hand at a HOT or COLD node: what is taken off Clock.size
HandFreed(e) ==
    IF StateBits(e.state) = stateCold /\ ~HasRef(e.state) THEN e.weight ELSE 0

\* Clock.evictIfNeeded, one pass through the body of the loop: the switch on the
\* state of hand.entry, then the hand moves on
HandVisit(r, es, sz) ==
    LET e == r[1]
        st == es[e].state
    IN IF StateBits(st) = stateTest
       THEN MkClock(ClockUnlink(r, 1), es, sz)
       ELSE MkClock(Tail(r) \o <<e>>,
                    [es EXCEPT ![e].state = HandState(st)],
                    sz - HandFreed(es[e]))

\* Clock.evictIfNeeded: the loop `for c.size > c.capacity`, hand = r[1]
RECURSIVE EvictLoop(_, _, _, _)
EvictLoop(r, es, sz, cap) ==
    IF sz <= cap THEN MkClock(r, es, sz)
    ELSE IF r = <<>> THEN [MkClock(r, es, sz) EXCEPT !.hang = TRUE]
    ELSE LET e == r[1]
             st == es[e].state
         IN IF StateBits(st) = stateTest
            THEN EvictLoop(ClockUnlink(r, 1), es, sz, cap)
            ELSE EvictLoop(Tail(r) \o <<e>>,
                           [es EXCEPT ![e].state = HandState(st)],
                           sz - HandFreed(es[e]), cap)

\* Clock.evictIfNeeded
evictIfNeeded(r, es, sz, cap) ==
    IF sz <= cap \/ r = <<>> THEN MkClock(r, es, sz) ELSE EvictLoop(r, es, sz, cap)

\* Clock.callEjectCb: the invocations of the user's callback it makes.  With a
\* callback and a value pointer it reads the value and drops it; c.ejectCb is
\* called on no path.
callEjectCb(cb, e, reason) ==
    IF ~cb THEN <<>>
    ELSE IF e.vptr.arena = 0 THEN <<>>
    ELSE <<>>

\* Clock.evictIfNeeded, the same loop: the keys of the entries it turns from
\* COLD without reference bit to TEST, and the callback invocations made for them
RECURSIVE EvictLog(_, _, _, _, _)
EvictLog(cb, r, es, sz, cap) ==
    IF sz <= cap \/ r = <<>> THEN NoEjects
    ELSE LET e == r[1]
             st == es[e].state
         IN IF StateBits(st) = stateTest
            THEN EvictLog(cb, ClockUnlink(r, 1), es, sz, cap)
            ELSE LET rest == EvictLog(cb, Tail(r) \o <<e>>,
                                      [es EXCEPT ![e].state = HandState(st)],
                                      sz - HandFreed(es[e]), cap)
                 IN IF StateBits(st) = stateCold /\ ~HasRef(st)
                    THEN [evicted |-> <<es[e].key>> \o rest.evicted,
                          calls |-> callEjectCb(cb, es[e], ReasonCapacity) \o rest.calls]
                    ELSE rest

\* an Insert that never runs the eviction loop
ClockInsertNoEvict(r, es, sz, e, cap) ==
    MkClock(ClockAppend(r, e), [es EXCEPT ![e].state = stateCold + refBit], sz + es[e].weight)

\* Clock.Insert
ClockInsert(r, es, sz, e, cap) ==
    evictIfNeeded(ClockAppend(r, e),
                  [es EXCEPT ![e].state = stateCold + refBit],
                  sz + es[e].weight, cap)

\* Clock.Remove: unlink the first node that points to e, taking its weight off size
Position(r, e) == IF \E i \in 1..Len(r) : r[i] = e
                  THEN CHOOSE i \in 1..Len(r) : r[i] = e /\ \A j \in 1..(i - 1) : r[j] # e
                  ELSE 0
ClockRemove(r, es, sz, e) ==
    IF Position(r, e) = 0 THEN MkClock(r, es, sz)
    ELSE MkClock(ClockUnlink(r, Position(r, e)), es, sz - es[e].weight)

\* Clock.GenerationEvicted: entries of the freed generation that are on the list
\* become TEST and their weight leaves Clock.size
InRing(r, e) == \E i \in 1..Len(r) : r[i] = e
Demoted(r, es, genID) ==
    {e \in EntIds : InRing(r, e) /\ es[e].genID = genID /\ ~IsTest(es[e].state)}
RECURSIVE SumWeight(_, _)
SumWeight(es, S) ==
    IF S = {} THEN 0
    ELSE LET e == CHOOSE x \in S : TRUE IN es[e].weight + SumWeight(es, S \ {e})
\* a notification that takes the weight of every entry of the generation off
\* size, ghosts included
GenerationEvictedRecounts(r, es, sz, genID) ==
    MkClock(r,
            [e \in EntIds |-> IF e \in Demoted(r, es, genID)
                              THEN [es[e] EXCEPT !.state = stateTest] ELSE es[e]],
            sz - SumWeight(es, {e \in EntIds : InRing(r, e) /\ es[e].genID = genID}))

\* Clock.GenerationEvicted
GenerationEvicted(r, es, sz, genID) ==
    MkClock(r,
            [e \in EntIds |-> IF e \in Demoted(r, es, genID)
                              THEN [es[e] EXCEPT !.state = stateTest] ELSE es[e]],
            sz - SumWeight(es, Demoted(r, es, genID)))

(* ---------------- shard: state transformers ---------------- *)
\* A shard value bundles what put / delete / rotate change.
MkShard(idx, c, gs, ai, ctr) ==
    [index |-> idx, ents |-> c.ents, ring |-> c.ring, size |-> c.size,
     gens |-> gs, activeIdx |-> ai, idCtr |-> ctr, hang |-> c.hang]

CurShard == MkShard(index, MkClock(ring, ents, size), gens, activeIdx, idCtr)

\* shard.rotate: Ring.Rotate, then Clock.GenerationEvicted when a generation was freed
ShardRotate(s) ==
    LET rr == RingRotate(s.gens, s.activeIdx, s.idCtr)
        c == IF rr.dead = 0 THEN MkClock(s.ring, s.ents, s.size)
             ELSE GenerationEvicted(s.ring, s.ents, s.size, rr.dead)
    IN MkShard(s.index, c, rr.gens, rr.activeIdx, rr.idCtr)

\* arena.NewValue in the active generation followed by *ptr = val
NewValue(gs, ai, v) == [arena |-> Active(gs, ai).id, val |-> v]

\* an update that leaves the entry in the generation of its previous value
PutUpdateKeepsGeneration(s, e, v, w) ==
    [s EXCEPT !.ents[e].vptr = NewValue(s.gens, s.activeIdx, v),
              !.ents[e].weight = w]

\* an update that leaves the old value pointer in place
PutUpdateKeepsPointer(s, e, v, w) ==
    [s EXCEPT !.ents[e].weight = w,
              !.ents[e].genID = Active(s.gens, s.activeIdx).id]

\* shard.put, fast path: the entry found under the key gets a new value pointer,
\* weight and generation id; nothing else is touched
PutUpdate(s, e, v, w) ==
    [s EXCEPT !.ents[e].vptr = NewValue(s.gens, s.activeIdx, v),
              !.ents[e].weight = w,
              !.ents[e].genID = Active(s.gens, s.activeIdx).id]

\* shard.put, slow path, with the fresh entry struct at pointer e
PutInsert(s, e, sd, k, v, w, cap) ==
    LET ent == [key |-> k, vptr |-> NewValue(s.gens, s.activeIdx, v), weight |-> w,
                genID |-> Active(s.gens, s.activeIdx).id, state |-> stateCold + refBit]
        c == ClockInsert(s.ring, [s.ents EXCEPT ![e] = ent], s.size, e, cap)
        idx == [s.index EXCEPT ![hash(sd, k)] = e]
        ins == MkShard(idx, c, AddBytes(s.gens, s.activeIdx, w), s.activeIdx, s.idCtr)
    IN IF c.hang THEN MkShard(idx, c, s.gens, s.activeIdx, s.idCtr)
       ELSE IF CheckRotationNeeded(s.gens, s.activeIdx, w, cap) THEN ShardRotate(ins)
       ELSE ins

\* shard.put, slow path: what Clock.Insert's eviction loop evicts and calls back
InsertEjects(s, cb, e, k, v, w, cap) ==
    LET ent == [key |-> k, vptr |-> NewValue(s.gens, s.activeIdx, v), weight |-> w,
                genID |-> Active(s.gens, s.activeIdx).id, state |-> stateCold + refBit]
    IN EvictLog(cb, ClockAppend(s.ring, e), [s.ents EXCEPT ![e] = ent], s.size + w, cap)

\* a lookup that trusts the fingerprint and skips the key comparison
LookupByFingerprint(idx, es, sd, k) == idx[hash(sd, k)]

\* what get, put and delete find in the index under the key: the entry pointer,
\* 0 when the fingerprint is absent or belongs to another key
Lookup(idx, es, sd, k) ==
    IF idx[hash(sd, k)] # 0 /\ es[idx[hash(sd, k)]].key = k THEN idx[hash(sd, k)] ELSE 0

\* a delete that takes the key out of the index and leaves its CLOCK node
ShardDeleteKeepsNode(s, sd, k) ==
    LET e == Lookup(s.index, s.ents, sd, k)
    IN IF e # 0
       THEN MkShard([s.index EXCEPT ![hash(sd, k)] = 0],
                    MkClock(s.ring, s.ents, s.size),
                    s.gens, s.activeIdx, s.idCtr)
       ELSE s

\* shard.delete
ShardDelete(s, sd, k) ==
    LET e == Lookup(s.index, s.ents, sd, k)
    IN IF e # 0
       THEN MkShard([s.index EXCEPT ![hash(sd, k)] = 0],
                    ClockRemove(s.ring, s.ents, s.size, e),
                    s.gens, s.activeIdx, s.idCtr)
       ELSE s

(* Entry structs are garbage collected: one that neither the index, the clock *)
(* list nor a goroutine points to is gone.  Pointer values carry no meaning, *)
(* so the live structs are renumbered: clock list order first, then the      *)
(* structs only the index holds, then those only a goroutine holds.          *)
FpSeq == [i \in 1..(NumKeys + 1) |-> i - 1]
ProcSeq == [i \in 1..NumProcs |-> i]
RingSet(r) == {r[i] : i \in 1..Len(r)}
IndexSet(idx) == {idx[h] : h \in Fingerprints} \ {0}
IndexOnly(s) ==
    LET fps == SelectSeq(FpSeq, LAMBDA h : s.index[h] # 0 /\ s.index[h] \notin RingSet(s.ring))
    IN [i \in 1..Len(fps) |-> s.index[fps[i]]]
LocalOnly(s, locals) ==
    LET ps == SelectSeq(ProcSeq, LAMBDA p :
                  /\ locals[p] # 0
                  /\ locals[p] \notin RingSet(s.ring) \cup IndexSet(s.index)
                  /\ \A q \in 1..(p - 1) : locals[q] # locals[p])
    IN [i \in 1..Len(ps) |-> locals[ps[i]]]
LiveOrder(s, locals) == s.ring \o IndexOnly(s) \o LocalOnly(s, locals)
NewId(order, e) == IF e = 0 THEN 0 ELSE CHOOSE i \in 1..Len(order) : order[i] = e
Collect(s, locals) ==
    LET order == LiveOrder(s, locals)
    IN [shard |-> [s EXCEPT
                     !.ents = [i \in EntIds |-> IF i <= Len(order) THEN s.ents[order[i]]
                                                ELSE NoEnt],
                     !.ring = [i \in 1..Len(s.ring) |-> i],
                     !.index = [h \in Fingerprints |-> NewId(order, s.index[h])]],
        locals |-> [p \in Procs |-> NewId(order, locals[p])]]
FreshId(es) == CHOOSE e \in EntIds : es[e] = NoEnt /\ \A f \in 1..(e - 1) : es[f] # NoEnt

\* *vp in shard.get: the stored value while its arena is valid; any value or a
\* fault (0) once the arena has been freed
Deref(gs, vptr) == IF Resident(gs, vptr.arena) THEN {vptr.val} ELSE Values \cup {0}

\* shard.len
ShardLen == Cardinality({h \in Fingerprints : index[h] # 0})
\* shard.sizeBytes
sizeBytes == SumWeight(ents, IndexSet(index))
\* Cache.Len, Cache.SizeBytes for the single shard
CacheLen == ShardLen
SizeBytes == sizeBytes

\* the user's loader: a pure function of the key
Loaded(k) == (k % NumValues) + 1

(* ---------------- initial state ---------------- *)
NoCall == [op |-> "none", key |-> 0, hit |-> FALSE, val |-> 0, err |-> FALSE, expect |-> 0,
           weight |-> 0, again |-> FALSE, state |-> 0, prevGen |-> 0]
NoArg == [op |-> "none", key |-> 0, val |-> 0, weight |-> 0]
NoRet == [op |-> "none", key |-> 0, hit |-> FALSE, val |-> 0, err |-> FALSE,
          resident |-> TRUE, locked |-> TRUE]

\* loaderGroup: no call in flight; a goroutine that has not called; no result
NoFlight == [on |-> FALSE, id |-> 0, ctxOf |-> 0, dups |-> 0, waiters |-> {}, chans |-> {}]
NoRaw == [ready |-> FALSE, val |-> 0, err |-> "nil", shared |-> FALSE]
NoLoad == [pc |-> "idle", key |-> 0, async |-> FALSE, cancelled |-> FALSE, early |-> FALSE,
           peers |-> {}, fid |-> 0, raw |-> NoRaw,
           n |-> 0, closed |-> FALSE, val |-> 0, err |-> "nil", shared |-> FALSE]
InitLoadVars ==
    /\ flight = [k \in Keys |-> NoFlight]
    /\ lproc = [p \in Procs |-> NoLoad]
    /\ fidCtr = 0

\* no call of New is being looked at
NoNewCall == [capBytes |-> 1, ttl |-> 1, shards |-> 1, done |-> FALSE, err |-> "",
              nshards |-> 0, perShard |-> 0, rotationStep |-> 0]

\* newShard(capBytes, ...) -> NewClock, genring.New, for capBytes in caps
InitShard(caps) ==
    /\ newCall = NoNewCall
    /\ InitLoadVars
    /\ capacity \in caps
    /\ seed \in Seeds
    /\ ejectCb \in BOOLEAN
    /\ index = [h \in Fingerprints |-> 0]
    /\ ents = [e \in EntIds |-> NoEnt]
    /\ ring = <<>>
    /\ size = 0
    /\ gens = [s \in Slots |-> IF s = 0 THEN [id |-> 1, bytes |-> 0] ELSE NoGen]
    /\ activeIdx = 0
    /\ idCtr = 1
    /\ hits = 0 /\ misses = 0 /\ evictions = 0
    /\ status = "ok"
    /\ last = NoCall
    /\ lastPut = [k \in Keys |-> 0]
    /\ rotsNoPut = 0
    /\ nops = 0
    /\ ejects = NoEjects
    /\ pc = [p \in Procs |-> "idle"]
    /\ arg = [p \in Procs |-> NoArg]
    /\ pent = [p \in Procs |-> 0]
    /\ pst = [p \in Procs |-> 0]
    /\ readers = {}
    /\ ret = [p \in Procs |-> NoRet]
    /\ ticks = 0
    /\ gets = 0

\* New with shards = 1 -> newShard
Init == InitShard(Capacities)

\* install a shard value computed by one of the transformers, with the
\* goroutines' entry pointers
InstallAs(s, locals, st) ==
    LET t == Collect(s, locals)
    IN /\ index' = t.shard.index
       /\ ents' = t.shard.ents
       /\ ring' = t.shard.ring
       /\ size' = t.shard.size
       /\ gens' = t.shard.gens
       /\ activeIdx' = t.shard.activeIdx
       /\ idCtr' = t.shard.idCtr
       /\ status' = IF t.shard.hang THEN "hang" ELSE st
       /\ pent' = t.locals

Install(s, locals) == InstallAs(s, locals, status)

Min(a, b) == IF a <= b THEN a ELSE b

\* a call may start: the program runs and the call budget is not used up
CanCall == status = "ok" /\ nops < MaxOps

(* ---------------- calls made one after the other ---------------- *)
\* a put that inserts a fresh entry whether or not the key is in the index
PutResultAlwaysInserts(k, v, w) ==
    PutInsert(CurShard, FreshId(ents), seed, k, v, w, capacity)

\* shard.put(key, val, weight), run to completion
PutResult(k, v, w) ==
    IF Lookup(index, ents, seed, k) # 0
    THEN PutUpdate(CurShard, Lookup(index, ents, seed, k), v, w)
    ELSE PutInsert(CurShard, FreshId(ents), seed, k, v, w, capacity)

\* the capacity evictions of that put, and the callback calls made for them
PutEjects(k, v, w) ==
    IF Lookup(index, ents, seed, k) # 0 THEN NoEjects
    ELSE InsertEjects(CurShard, ejectCb, FreshId(ents), k, v, w, capacity)

Put(k, v, w) ==
    /\ CanCall
    /\ PutResult(k, v, w).idCtr <= MaxGenID
    /\ Install(PutResult(k, v, w), pent)
    /\ last' = [NoCall EXCEPT !.op = IF PutResult(k, v, w).hang THEN "hang" ELSE "put",
                              !.key = k, !.val = v, !.weight = w,
                              !.again = (last.op = "put" /\ last.key = k /\ last.val = v
                                         /\ last.weight = w),
                              !.prevGen = IF Lookup(index, ents, seed, k) # 0
                                          THEN ents[Lookup(index, ents, seed, k)].genID
                                          ELSE 0]
    /\ ejects' = PutEjects(k, v, w)
    /\ lastPut' = IF PutResult(k, v, w).hang THEN lastPut ELSE [lastPut EXCEPT ![k] = v]
    /\ rotsNoPut' = 0
    /\ nops' = nops + 1
    /\ UNCHANGED <<capacity, seed, ejectCb, hits, misses, evictions, pc, arg, pst, readers, ret, ticks, auxVars>>

\* the value the call just before this one stored under k (0: it stored none)
JustStored(k, op) == IF last.op = op /\ last.key = k /\ ~last.err /\ ~last.hit
                     THEN last.val ELSE 0

\* shard.get(key) as far as the copy of the value: counters, reference bit, *vp
\* (out = 0 is the fault of an invalid read)
GetHit(e, out) ==
    /\ hits' = hits + 1
    /\ ents' = [ents EXCEPT ![e].state = SetReferenced(@)]
    /\ status' = IF out = 0 THEN "fault" ELSE status
    /\ UNCHANGED misses

\* a miss that is not counted
GetMissUncounted == UNCHANGED <<misses, ents, hits, status>>

\* shard.get, the two miss paths (fingerprint absent, stored key different)
GetMiss ==
    /\ misses' = misses + 1
    /\ UNCHANGED <<ents, hits, status>>

\* shard.get(key), run to completion
Get(k) ==
    /\ CanCall
    /\ LET e == Lookup(index, ents, seed, k)
       IN IF e = 0
          THEN /\ GetMiss
               /\ last' = [NoCall EXCEPT !.op = "get", !.key = k,
                                         !.expect = JustStored(k, "put")]
          ELSE \E out \in Deref(gens, ents[e].vptr) :
               /\ GetHit(e, out)
               /\ last' = IF out = 0 THEN [NoCall EXCEPT !.op = "fault", !.key = k]
                          ELSE [NoCall EXCEPT !.op = "get", !.key = k, !.hit = TRUE,
                                              !.val = out, !.expect = JustStored(k, "put")]
    /\ nops' = nops + 1
    /\ gets' = gets + 1
    /\ ejects' = NoEjects
    /\ UNCHANGED <<capacity, seed, ejectCb, index, ring, size, gens, activeIdx, idCtr, evictions,
                   lastPut, rotsNoPut, procVars, ticks, newCall, loadVars>>

\* shard.delete(key), run to completion
Delete(k) ==
    /\ CanCall
    /\ Install(ShardDelete(CurShard, seed, k), pent)
    /\ evictions' = IF Lookup(index, ents, seed, k) # 0 THEN evictions + 1 ELSE evictions
    /\ last' = [NoCall EXCEPT !.op = "delete", !.key = k]
    /\ nops' = nops + 1
    /\ ejects' = NoEjects
    /\ UNCHANGED <<capacity, seed, ejectCb, hits, misses, lastPut, rotsNoPut,
                   pc, arg, pst, readers, ret, ticks, auxVars>>

\* shard.rotate(), run to completion
Rotate ==
    /\ status = "ok"
    /\ idCtr < MaxGenID
    /\ Install(ShardRotate(CurShard), pent)
    /\ last' = IF last.op = "put" /\ last.prevGen # 0
                  /\ last.prevGen = RingRotate(gens, activeIdx, idCtr).dead
               THEN [NoCall EXCEPT !.op = "rotate", !.key = last.key, !.val = last.val,
                                   !.prevGen = last.prevGen]
               ELSE [NoCall EXCEPT !.op = "rotate"]
    /\ rotsNoPut' = Min(rotsNoPut + 1, defaultGenerations)
    /\ ejects' = NoEjects
    /\ UNCHANGED <<capacity, seed, ejectCb, hits, misses, evictions, lastPut, nops,
                   pc, arg, pst, readers, ret, ticks, auxVars>>

\* a getOrLoad that caches something for the key even though its loader failed
GetOrLoadStoresFailure(k) ==
    /\ CanCall
    /\ Lookup(index, ents, seed, k) = 0
    /\ PutResult(k, Loaded(k), 1).idCtr <= MaxGenID
    /\ Install(PutResult(k, Loaded(k), 1), pent)
    /\ misses' = misses + 1
    /\ last' = [NoCall EXCEPT !.op = "getOrLoad", !.key = k, !.err = TRUE]
    /\ nops' = nops + 1
    /\ gets' = gets + 1
    /\ ejects' = NoEjects
    /\ UNCHANGED <<capacity, seed, ejectCb, hits, evictions, lastPut, rotsNoPut,
                   pc, arg, pst, readers, ret, ticks, newCall, loadVars>>

\* shard.getOrLoad(ctx, key, loader), run to completion: get, and on a miss
\* whatever the loader returns (its value, or an error) is returned as it is
GetOrLoad(k) ==
    /\ CanCall
    /\ LET e == Lookup(index, ents, seed, k)
       IN IF e = 0
          THEN /\ GetMiss
               /\ \E failed \in BOOLEAN :
                    last' = [NoCall EXCEPT !.op = "getOrLoad", !.key = k,
                                           !.val = IF failed THEN 0 ELSE Loaded(k),
                                           !.err = failed,
                                           !.expect = JustStored(k, "getOrLoad")]
          ELSE \E out \in Deref(gens, ents[e].vptr) :
               /\ GetHit(e, out)
               /\ last' = IF out = 0 THEN [NoCall EXCEPT !.op = "fault", !.key = k]
                          ELSE [NoCall EXCEPT !.op = "getOrLoad", !.key = k, !.hit = TRUE,
                                              !.val = out,
                                              !.expect = JustStored(k, "getOrLoad")]
    /\ nops' = nops + 1
    /\ gets' = gets + 1
    /\ ejects' = NoEjects
    /\ UNCHANGED <<capacity, seed, ejectCb, index, ring, size, gens, activeIdx, idCtr, evictions,
                   lastPut, rotsNoPut, procVars, ticks, newCall, loadVars>>

\* the shard's own operations, called one after the other
Next ==
    \/ \E k \in Keys, v \in Values, w \in Weights : Put(k, v, w)
    \/ \E k \in Keys : Get(k)
    \/ \E k \in Keys : Delete(k)
    \/ Rotate

Spec == Init /\ [][Next]_vars

\* every operation of the shard, getOrLoad included
NextShard ==
    \/ \E k \in Keys, v \in Values, w \in Weights : Put(k, v, w)
    \/ \E k \in Keys : Get(k)
    \/ \E k \in Keys : GetOrLoad(k)
    \/ \E k \in Keys : Delete(k)
    \/ Rotate

SpecShard == Init /\ [][NextShard]_vars

\* a shard whose capacity is the weight of one entry: every put has that weight
NextOneEntry ==
    \/ \E k \in Keys, v \in Values : Put(k, v, capacity)
    \/ \E k \in Keys : Get(k)

SpecOneEntry == InitShard(1..defaultGenerations) /\ [][NextOneEntry]_vars

\* the operations that change what the eviction loop works on, with any weight
\* argument from zero up: inserts, updates that change the weight, deletes and
\* rotations.  The value stored does not reach CLOCK-Pro: one value is put.
AnyValue == CHOOSE v \in Values : TRUE
NextEvict ==
    \/ \E k \in Keys, w \in 0..MaxWeight : Put(k, AnyValue, w)
    \/ \E k \in Keys : Delete(k)
    \/ Rotate

\* no eject callback is configured (callEjectCb returns at once)
InitEvict == Init /\ ~ejectCb

SpecEvict == InitEvict /\ [][NextEvict]_vars

\* put called with any weight argument, zero included (Cache.Put passes the
\* caller's weight on as it is), and get
ArgWeights == 0..MaxWeight

NextWeights ==
    \/ \E k \in Keys, v \in Values, w \in ArgWeights : Put(k, v, w)
    \/ \E k \in Keys : Get(k)

SpecWeights == Init /\ [][NextWeights]_vars

(* ---------------- the Cache facade ---------------- *)
\* a rotation period (cfg.rotationStep) goes by: New started no task and no
\* timer, so nothing of the cache changes
Tick ==
    /\ ticks' = 1 - ticks
    /\ UNCHANGED <<shardVars, histVars, procVars, auxVars>>

\* Cache.Close -> shard.close: index, clock and genRing become nil (no arena is
\* freed, no flag is set)
Close ==
    /\ status = "ok"
    /\ status' = "closed"
    /\ index' = [h \in Fingerprints |-> 0]
    /\ ents' = [e \in EntIds |-> NoEnt]
    /\ ring' = <<>>
    /\ size' = 0
    /\ gens' = [s \in Slots |-> NoGen]
    /\ activeIdx' = 0
    /\ idCtr' = 0
    /\ last' = [NoCall EXCEPT !.op = "close"]
    /\ ejects' = NoEjects
    /\ UNCHANGED <<capacity, seed, ejectCb, hits, misses, evictions, lastPut, rotsNoPut, nops,
                   procVars, ticks, auxVars>>

\* Cache.Put after Close: the lookup in the nil index finds nothing, and the
\* slow path calls s.genRing.Active() on the nil ring: nil pointer dereference
PutClosed(k, v, w) ==
    /\ status = "closed"
    /\ nops < MaxOps
    /\ status' = "panic"
    /\ last' = [NoCall EXCEPT !.op = "panic", !.key = k]
    /\ nops' = nops + 1
    /\ UNCHANGED <<capacity, seed, ejectCb, index, ents, ring, size, gens, activeIdx, idCtr,
                   hits, misses, evictions, lastPut, rotsNoPut, ejects, procVars, ticks, auxVars>>

\* Cache.GetOrLoad after Close: get misses in the nil index, and the loader is
\* run and its result returned
GetOrLoadClosed(k) ==
    /\ status = "closed"
    /\ nops < MaxOps
    /\ misses' = misses + 1
    /\ \E failed \in BOOLEAN :
         last' = [NoCall EXCEPT !.op = "getOrLoad", !.key = k,
                                !.val = IF failed THEN 0 ELSE Loaded(k),
                                !.err = failed]
    /\ nops' = nops + 1
    /\ gets' = gets + 1
    /\ UNCHANGED <<capacity, seed, ejectCb, index, ents, ring, size, gens, activeIdx, idCtr,
                   hits, evictions, status, lastPut, rotsNoPut, ejects, procVars, ticks, newCall, loadVars>>

\* the exported operations of a Cache built by New: Put, GetOrLoad and Close
\* (Len and SizeBytes only read), while time goes by
NextCache ==
    \/ \E k \in Keys, v \in Values, w \in Weights : Put(k, v, w)
    \/ \E k \in Keys : GetOrLoad(k)
    \/ Close
    \/ \E k \in Keys, v \in Values, w \in Weights : PutClosed(k, v, w)
    \/ \E k \in Keys : GetOrLoadClosed(k)
    \/ Tick

\* time never stops; nothing else is scheduled by the cache
SpecCache == Init /\ [][NextCache]_vars /\ WF_vars(Tick)

(* ---------------- New: validation of the arguments ---------------- *)
\* the arguments New is called with: around zero, and ttl also in milliseconds
CapArgs == -1..MaxCapArg
TtlArgs == (-1..MaxTtlArg) \cup {t * generations * Millisecond : t \in 1..MaxTtlArg}
ShardsArgs == 0..MaxShardsArg

\* a & b on unsigned integers
RECURSIVE BitAnd(_, _)
BitAnd(a, b) ==
    IF a = 0 \/ b = 0 THEN 0
    ELSE (a % 2) * (b % 2) + 2 * BitAnd(a \div 2, b \div 2)

\* a shard count check that lets every even number through
BadShardsOddOnly(n) == n = 0 \/ (n # 1 /\ n % 2 = 1)

\* shards == 0 || (shards&(shards-1)) != 0, on uint8
BadShards(n) == n = 0 \/ BitAnd(n, (n - 1) % 256) # 0

\* applyOptions: validation again, then cfg.rotationStep
applyOptions(cfg) ==
    IF cfg.capBytes <= 0 THEN [cfg EXCEPT !.err = "capacity bytes must be > 0"]
    ELSE IF cfg.ttl <= 0 THEN [cfg EXCEPT !.err = "ttl must be > 0"]
    ELSE IF BadShards(cfg.shards)
    THEN [cfg EXCEPT !.err = "shards must be power-of-two and > 0"]
    ELSE [cfg EXCEPT !.rotationStep =
              IF cfg.ttl \div generations < Millisecond THEN Millisecond
              ELSE cfg.ttl \div generations]

\* New(capBytes, ttl, shards): the error it returns ("" = nil), the number of
\* shards of the cache it returns (0 = no cache) and the budget of each
NewResult(c) ==
    IF c.capBytes <= 0 THEN [c EXCEPT !.done = TRUE, !.err = "capacity bytes must be > 0"]
    ELSE IF c.ttl <= 0 THEN [c EXCEPT !.done = TRUE, !.err = "ttl must be > 0"]
    ELSE IF BadShards(c.shards)
    THEN [c EXCEPT !.done = TRUE, !.err = "shards must be power-of-two and > 0"]
    ELSE LET cfg == applyOptions(c)
         IN IF cfg.err # "" THEN [cfg EXCEPT !.done = TRUE]
            ELSE [cfg EXCEPT !.done = TRUE, !.nshards = c.shards,
                             !.perShard = c.capBytes \div c.shards]

\* the shard variables while no shard is looked at
InitNoShard ==
    /\ capacity = 1 /\ seed = 0 /\ ejectCb = FALSE
    /\ index = [h \in Fingerprints |-> 0]
    /\ ents = [e \in EntIds |-> NoEnt]
    /\ ring = <<>>
    /\ size = 0
    /\ gens = [s \in Slots |-> NoGen]
    /\ activeIdx = 0
    /\ idCtr = 0
    /\ hits = 0 /\ misses = 0 /\ evictions = 0
    /\ status = "ok"
    /\ last = NoCall
    /\ lastPut = [k \in Keys |-> 0]
    /\ rotsNoPut = 0
    /\ nops = 0
    /\ ejects = NoEjects
    /\ pc = [p \in Procs |-> "idle"]
    /\ arg = [p \in Procs |-> NoArg]
    /\ pent = [p \in Procs |-> 0]
    /\ pst = [p \in Procs |-> 0]
    /\ readers = {}
    /\ ret = [p \in Procs |-> NoRet]
    /\ ticks = 0
    /\ gets = 0

InitNew ==
    /\ newCall \in {[NoNewCall EXCEPT !.capBytes = c, !.ttl = t, !.shards = n] :
                        c \in CapArgs, t \in TtlArgs, n \in ShardsArgs}
    /\ InitLoadVars
    /\ InitNoShard

\* the call of New returns
CallNew ==
    /\ ~newCall.done
    /\ newCall' = NewResult(newCall)
    /\ UNCHANGED <<shardVars, histVars, procVars, ticks, loadVars, gets>>

NextNew == CallNew

SpecNew == InitNew /\ [][NextNew]_vars

(* ---------------- the eviction loop, visit by visit ---------------- *)
\* Clock.Insert has appended the new entry and added its weight, and
\* evictIfNeeded has entered its loop.  The clock it finds: up to MaxOps nodes,
\* each entry with one of the state bytes the code writes (COLD, HOT or TEST,
\* with or without the reference bit that a get sets) and any weight; size
\* above the capacity by at most the weight just added; and what size counts
\* beyond the weights of the live entries within the capacity.
HandStates == {sb + rb : sb \in {stateCold, stateHot, stateTest}, rb \in {0, refBit}}
Writer == CHOOSE p \in Procs : TRUE
KeyOfNode(e) == ((e - 1) % NumKeys) + 1
LiveRingWeight == SumWeight(ents, {e \in RingSet(ring) : ~IsTest(ents[e].state)})

InitHand ==
    /\ newCall = NoNewCall
    /\ InitLoadVars
    /\ capacity \in Capacities
    /\ seed \in {sd \in Seeds : \A k1, k2 \in Keys : k1 # k2 => hash(sd, k1) # hash(sd, k2)}
    /\ ejectCb = FALSE
    /\ gens = [s \in Slots |-> IF s = 0 THEN [id |-> 1, bytes |-> 0] ELSE NoGen]
    /\ activeIdx = 0
    /\ idCtr = 1
    /\ size \in (capacity + 1)..(capacity + MaxWeight)
    /\ \E n \in 1..MaxOps :
          /\ ring = [i \in 1..n |-> i]
          /\ \E sts \in [1..n -> HandStates], ws \in [1..n -> Weights] :
                /\ sts[n] = stateCold + refBit
                /\ ents = [e \in EntIds |->
                              IF e <= n
                              THEN [key |-> KeyOfNode(e),
                                    vptr |-> NewValue(gens, activeIdx, AnyValue),
                                    weight |-> ws[e],
                                    genID |-> Active(gens, activeIdx).id,
                                    state |-> sts[e]]
                              ELSE NoEnt]
          /\ size - ents[n].weight <= capacity
          /\ index = [h \in Fingerprints |->
                         IF \E e \in 1..n : hash(seed, KeyOfNode(e)) = h
                         THEN CHOOSE e \in 1..n : /\ hash(seed, KeyOfNode(e)) = h
                                                   /\ \A f \in (e + 1)..n :
                                                         hash(seed, KeyOfNode(f)) # h
                         ELSE 0]
    /\ size - LiveRingWeight <= capacity
    /\ hits = 0 /\ misses = 0 /\ evictions = 0
    /\ status = "ok"
    /\ last = NoCall
    /\ lastPut = [k \in Keys |-> 0]
    /\ rotsNoPut = 0
    /\ nops = 0
    /\ ejects = NoEjects
    /\ pc = [p \in Procs |-> IF p = Writer THEN "evict" ELSE "idle"]
    /\ arg = [p \in Procs |-> NoArg]
    /\ pent = [p \in Procs |-> 0]
    /\ pst = [p \in Procs |-> 0]
    /\ readers = {}
    /\ ret = [p \in Procs |-> NoRet]
    /\ ticks = 0
    /\ gets = 0

\* the loop condition holds: the hand visits the node it points to
Visit ==
    /\ status = "ok"
    /\ pc[Writer] = "evict"
    /\ size > capacity
    /\ ring # <<>>
    /\ ring' = HandVisit(ring, ents, size).ring
    /\ ents' = HandVisit(ring, ents, size).ents
    /\ size' = HandVisit(ring, ents, size).size
    /\ status' = IF HandVisit(ring, ents, size).ring = <<>>
                     /\ HandVisit(ring, ents, size).size > capacity
                  THEN "hang" ELSE status
    /\ last' = [NoCall EXCEPT !.op = "visit", !.key = ents[ring[1]].key,
                              !.state = ents[ring[1]].state]
    /\ UNCHANGED <<capacity, seed, ejectCb, index, gens, activeIdx, idCtr, hits, misses,
                   evictions, lastPut, rotsNoPut, nops, ejects, procVars, ticks, auxVars>>

\* the loop condition fails: c.head = hand, and evictIfNeeded returns
LoopExit ==
    /\ status = "ok"
    /\ pc[Writer] = "evict"
    /\ size <= capacity
    /\ pc' = [pc EXCEPT ![Writer] = "idle"]
    /\ last' = [NoCall EXCEPT !.op = "evicted"]
    /\ UNCHANGED <<shardVars, lastPut, rotsNoPut, nops, ejects, arg, pent, pst, readers, ret,
                   ticks, auxVars>>

NextHand == Visit \/ LoopExit

SpecHand == InitHand /\ [][NextHand]_vars

(* ---------------- calls made by concurrent goroutines ---------------- *)
\* a goroutine may start a call
CanStart == status = "ok" /\ nops < MaxCalls

\* shard.get / shard.getOrLoad, first part: RLock, index lookup, RUnlock, the
\* key comparison and the hit or miss counter.  A miss ends get and sends
\* getOrLoad into the user's loader.
StartGetWithin(p, k, op, budget) ==
    /\ status = "ok" /\ nops < budget
    /\ pc[p] = "idle"
    /\ nops' = nops + 1
    /\ gets' = gets + 1
    /\ arg' = [arg EXCEPT ![p] = IF Lookup(index, ents, seed, k) = 0 /\ op = "get"
                                  THEN NoArg
                                  ELSE [NoArg EXCEPT !.op = op, !.key = k]]
    /\ IF Lookup(index, ents, seed, k) = 0
       THEN /\ misses' = misses + 1
            /\ pc' = [pc EXCEPT ![p] = IF op = "get" THEN "idle" ELSE "loading"]
            /\ ret' = [ret EXCEPT ![p] = [NoRet EXCEPT !.op = IF op = "get" THEN op ELSE "none",
                                                       !.key = k]]
            /\ UNCHANGED <<hits, pent>>
       ELSE /\ hits' = hits + 1
            /\ pent' = [pent EXCEPT ![p] = Lookup(index, ents, seed, k)]
            /\ pc' = [pc EXCEPT ![p] = "get_ref"]
            /\ ret' = [ret EXCEPT ![p] = NoRet]
            /\ UNCHANGED misses
    /\ UNCHANGED <<capacity, seed, ejectCb, index, ents, ring, size, gens, activeIdx, idCtr,
                   evictions, status, last, lastPut, rotsNoPut, ejects, pst, readers, ticks, newCall, loadVars>>

StartGet(p, k, op) == StartGetWithin(p, k, op, MaxCalls)

\* clockpro.SetReferenced, first half of `*b |= refBit`: load the state byte
GetLoadState(p) ==
    /\ status = "ok"
    /\ pc[p] = "get_ref"
    /\ pst' = [pst EXCEPT ![p] = ents[pent[p]].state]
    /\ pc' = [pc EXCEPT ![p] = "get_copy"]
    /\ UNCHANGED <<shardVars, histVars, arg, pent, readers, ret, ticks, auxVars>>

\* second half of `*b |= refBit` (store the byte), then the copy `*vp` that
\* get returns
GetCopy(p) ==
    /\ status = "ok"
    /\ pc[p] = "get_copy"
    /\ \E out \in Deref(gens, ents[pent[p]].vptr) :
         /\ InstallAs([CurShard EXCEPT !.ents[pent[p]].state = SetReferenced(pst[p])],
                      [pent EXCEPT ![p] = 0],
                      IF out = 0 THEN "fault" ELSE status)
         /\ ret' = [ret EXCEPT ![p] =
                      [NoRet EXCEPT !.op = IF out = 0 THEN "fault" ELSE arg[p].op,
                                    !.key = arg[p].key,
                                    !.hit = out # 0,
                                    !.val = out,
                                    !.resident = Resident(gens, ents[pent[p]].vptr.arena),
                                    !.locked = p \in readers]]
    /\ pc' = [pc EXCEPT ![p] = "idle"]
    /\ pst' = [pst EXCEPT ![p] = 0]
    /\ arg' = [arg EXCEPT ![p] = NoArg]
    /\ UNCHANGED <<capacity, seed, ejectCb, hits, misses, evictions, histVars, readers, ticks, auxVars>>

\* shard.getOrLoad after a miss: `return loader(ctx, key)`
LoaderReturn(p) ==
    /\ status = "ok"
    /\ pc[p] = "loading"
    /\ \E failed \in BOOLEAN :
         ret' = [ret EXCEPT ![p] = [NoRet EXCEPT !.op = "getOrLoad", !.key = arg[p].key,
                                                 !.val = IF failed THEN 0 ELSE Loaded(arg[p].key),
                                                 !.err = failed]]
    /\ pc' = [pc EXCEPT ![p] = "idle"]
    /\ arg' = [arg EXCEPT ![p] = NoArg]
    /\ UNCHANGED <<shardVars, histVars, pent, pst, readers, ticks, auxVars>>

\* shard.put, first part: RLock and index lookup.  When the key is found the
\* goroutine keeps the read lock for the update; otherwise it releases it and
\* goes for the write lock.
StartPutWithin(p, k, v, w, budget) ==
    /\ status = "ok" /\ nops < budget
    /\ pc[p] = "idle"
    /\ nops' = nops + 1
    /\ arg' = [arg EXCEPT ![p] = [op |-> "put", key |-> k, val |-> v, weight |-> w]]
    /\ ret' = [ret EXCEPT ![p] = NoRet]
    /\ IF Lookup(index, ents, seed, k) # 0
       THEN /\ pent' = [pent EXCEPT ![p] = Lookup(index, ents, seed, k)]
            /\ readers' = readers \cup {p}
            /\ pc' = [pc EXCEPT ![p] = "put_update"]
       ELSE /\ pc' = [pc EXCEPT ![p] = "put_insert"]
            /\ UNCHANGED <<pent, readers>>
    /\ UNCHANGED <<shardVars, last, lastPut, rotsNoPut, ejects, pst, ticks, auxVars>>

StartPut(p, k, v, w) == StartPutWithin(p, k, v, w, MaxCalls)

\* shard.put, fast path under the read lock: allocate, swap pointer, weight and
\* generation id, RUnlock
PutFast(p) ==
    /\ status = "ok"
    /\ pc[p] = "put_update"
    /\ Install(PutUpdate(CurShard, pent[p], arg[p].val, arg[p].weight),
               [pent EXCEPT ![p] = 0])
    /\ readers' = readers \ {p}
    /\ pc' = [pc EXCEPT ![p] = "idle"]
    /\ arg' = [arg EXCEPT ![p] = NoArg]
    /\ UNCHANGED <<capacity, seed, ejectCb, hits, misses, evictions, histVars, pst, ret, ticks, auxVars>>

\* shard.put, slow path: Lock, insert a fresh entry, Clock.Insert, rotation
\* check, Unlock
InsertResult(p) ==
    PutInsert(CurShard, FreshId(ents), seed, arg[p].key, arg[p].val, arg[p].weight, capacity)

PutSlow(p) ==
    /\ status = "ok"
    /\ pc[p] = "put_insert"
    /\ readers = {}
    /\ InsertResult(p).idCtr <= MaxGenID
    /\ Install(InsertResult(p), pent)
    /\ pc' = [pc EXCEPT ![p] = "idle"]
    /\ arg' = [arg EXCEPT ![p] = NoArg]
    /\ ejects' = InsertEjects(CurShard, ejectCb, FreshId(ents), arg[p].key, arg[p].val,
                              arg[p].weight, capacity)
    /\ UNCHANGED <<capacity, seed, ejectCb, hits, misses, evictions, last, lastPut, rotsNoPut,
                   nops, pst, readers, ret, ticks, auxVars>>

\* shard.delete by goroutine p: the whole call runs under the write lock
DeleteBy(p, k) ==
    /\ CanStart
    /\ pc[p] = "idle"
    /\ readers = {}
    /\ nops' = nops + 1
    /\ Install(ShardDelete(CurShard, seed, k), pent)
    /\ evictions' = IF Lookup(index, ents, seed, k) # 0 THEN evictions + 1 ELSE evictions
    /\ UNCHANGED <<capacity, seed, ejectCb, hits, misses, last, lastPut, rotsNoPut, ejects,
                   pc, arg, pst, readers, ret, ticks, auxVars>>

\* shard.rotate called from another goroutine; it takes no lock
RotateAsync ==
    /\ status = "ok"
    /\ idCtr < MaxGenID
    /\ Install(ShardRotate(CurShard), pent)
    /\ UNCHANGED <<capacity, seed, ejectCb, hits, misses, evictions, histVars,
                   pc, arg, pst, readers, ret, ticks, auxVars>>

\* goroutines calling into one shard
NextConc ==
    \/ \E p \in Procs, k \in Keys : StartGet(p, k, "get")
    \/ \E p \in Procs, k \in Keys : StartGet(p, k, "getOrLoad")
    \/ \E p \in Procs : GetLoadState(p)
    \/ \E p \in Procs : GetCopy(p)
    \/ \E p \in Procs : LoaderReturn(p)
    \/ \E p \in Procs, k \in Keys, v \in Values, w \in Weights : StartPut(p, k, v, w)
    \/ \E p \in Procs : PutFast(p)
    \/ \E p \in Procs : PutSlow(p)
    \/ \E p \in Procs, k \in Keys : DeleteBy(p, k)
    \/ RotateAsync

SpecConc == Init /\ [][NextConc]_vars

\* gets and puts only, by concurrent goroutines, over a longer run of calls:
\* every rotation is one that a put makes under the write lock.  The value
\* stored plays no part: one value is put.
NextRace ==
    \/ \E p \in Procs, k \in Keys : StartGetWithin(p, k, "get", MaxRaceCalls)
    \/ \E p \in Procs : GetLoadState(p)
    \/ \E p \in Procs : GetCopy(p)
    \/ \E p \in Procs, k \in Keys, w \in Weights :
          StartPutWithin(p, k, AnyValue, w, MaxRaceCalls)
    \/ \E p \in Procs : PutFast(p)
    \/ \E p \in Procs : PutSlow(p)

SpecRace == InitEvict /\ [][NextRace]_vars

(* ---------------- loaderGroup: load and loadAsync ---------------- *)
\* singleflight.Group keeps one call per key; the key is the fingerprint in
\* hexadecimal, one per key here.  The loader of a call started by load gets
\* the context of the goroutine that started it (ctxOf); started by loadAsync
\* it gets context.Background() (ctxOf = 0).

\* how the user's loader can end: with its value, with an error of its own, or,
\* when the context it was given is cancelled and it honours it, with ctx.Err()
Outcomes(k) ==
    {"nil", "loader"} \cup
    (IF flight[k].ctxOf # 0 /\ lproc[flight[k].ctxOf].cancelled THEN {"ctx"} ELSE {})

\* loaderGroup.load: g.Do either starts the call and runs the loader in this
\* goroutine, or joins the call in flight and waits for it
CallLoad(p, k) ==
    /\ lproc[p].pc = "idle"
    /\ IF flight[k].on
       THEN /\ flight' = [flight EXCEPT ![k].dups = @ + 1, ![k].waiters = @ \cup {p}]
            /\ lproc' = [lproc EXCEPT ![p].pc = "do", ![p].key = k, ![p].fid = flight[k].id]
            /\ UNCHANGED fidCtr
       ELSE /\ flight' = [flight EXCEPT ![k] = [NoFlight EXCEPT !.on = TRUE, !.id = fidCtr + 1,
                                                              !.ctxOf = p, !.waiters = {p}]]
            /\ lproc' = [lproc EXCEPT ![p].pc = "do", ![p].key = k, ![p].fid = fidCtr + 1]
            /\ fidCtr' = fidCtr + 1
    /\ UNCHANGED <<shardVars, histVars, procVars, ticks, newCall, gets>>

\* loaderGroup.loadAsync: g.DoChan starts or joins the call and returns its
\* channel; the goroutine that will forward the result is spawned
CallLoadAsync(p, k) ==
    /\ lproc[p].pc = "idle"
    /\ IF flight[k].on
       THEN /\ flight' = [flight EXCEPT ![k].dups = @ + 1, ![k].chans = @ \cup {p}]
            /\ lproc' = [lproc EXCEPT ![p].pc = "spawned", ![p].key = k, ![p].async = TRUE,
                                      ![p].fid = flight[k].id]
            /\ UNCHANGED fidCtr
       ELSE /\ flight' = [flight EXCEPT ![k] = [NoFlight EXCEPT !.on = TRUE, !.id = fidCtr + 1,
                                                              !.chans = {p}]]
            /\ lproc' = [lproc EXCEPT ![p].pc = "spawned", ![p].key = k, ![p].async = TRUE,
                                      ![p].fid = fidCtr + 1]
            /\ fidCtr' = fidCtr + 1
    /\ UNCHANGED <<shardVars, histVars, procVars, ticks, newCall, gets>>

\* the caller's context is cancelled.  early: the loader of its call has not
\* finished; peers: who else is waiting for that call.  A forwarding goroutine
\* parked in its select is woken by ctx.Done().
Cancel(p) ==
    /\ lproc[p].pc \in {"do", "doret", "spawned", "parked", "wake_ch"}
    /\ ~lproc[p].cancelled
    /\ LET f == flight[lproc[p].key]
           running == f.on /\ f.id = lproc[p].fid
       IN lproc' = [lproc EXCEPT ![p].cancelled = TRUE,
                                 ![p].early = running,
                                 ![p].peers = IF running THEN (f.waiters \cup f.chans) \ {p}
                                              ELSE {},
                                 ![p].pc = IF @ = "parked" THEN "wake_ctx" ELSE @]
    /\ UNCHANGED <<shardVars, histVars, procVars, ticks, newCall, flight, fidCtr, gets>>

\* what a call hands to one of its waiters: Do returns shared = dups > 0 to the
\* goroutine that ran the loader and true to those that joined; every channel
\* of DoChan receives Shared = dups > 0
RawFor(p, k, out) ==
    [ready |-> TRUE,
     val |-> IF out = "nil" THEN Loaded(k) ELSE 0,
     err |-> out,
     shared |-> IF p \in flight[k].waiters /\ p # flight[k].ctxOf THEN TRUE
                ELSE flight[k].dups > 0]

\* the loader of the call for k returns: the call leaves the group, the
\* goroutines blocked in Do continue, every DoChan channel gets the result
LoaderFinish(k, out) ==
    /\ flight[k].on
    /\ out \in Outcomes(k)
    /\ lproc' = [p \in Procs |->
                    IF p \in flight[k].waiters
                    THEN [lproc[p] EXCEPT !.raw = RawFor(p, k, out), !.pc = "doret"]
                    ELSE IF p \in flight[k].chans
                    THEN [lproc[p] EXCEPT !.raw = RawFor(p, k, out),
                                          !.pc = IF @ = "parked" THEN "wake_ch" ELSE @]
                    ELSE lproc[p]]
    /\ flight' = [flight EXCEPT ![k] = NoFlight]
    /\ UNCHANGED <<shardVars, histVars, procVars, ticks, newCall, fidCtr, gets>>

\* loaderGroup.load after g.Do returned: ctx.Err() if the context is cancelled
\* by now, otherwise res.(V) with a nil error
LoadReturn(p) ==
    /\ lproc[p].pc = "doret"
    /\ lproc' = [lproc EXCEPT ![p].pc = "done",
                              ![p].n = 1,
                              ![p].val = IF lproc[p].cancelled THEN 0 ELSE lproc[p].raw.val,
                              ![p].err = IF lproc[p].cancelled THEN "ctx" ELSE "nil",
                              ![p].shared = lproc[p].raw.shared]
    /\ UNCHANGED <<shardVars, histVars, procVars, ticks, newCall, flight, fidCtr, gets>>

\* what the forwarding goroutine sends on `out` for the select case it took
Forward(p, case) ==
    IF case = "ctx" THEN [lproc[p] EXCEPT !.val = 0, !.err = "ctx", !.shared = FALSE]
    ELSE [lproc[p] EXCEPT !.val = IF lproc[p].raw.err # "nil" THEN 0 ELSE lproc[p].raw.val,
                          !.err = lproc[p].raw.err,
                          !.shared = lproc[p].raw.shared]

\* the select cases that are ready for the forwarding goroutine of p
ReadyCases(p) ==
    (IF lproc[p].raw.ready THEN {"ch"} ELSE {}) \cup (IF lproc[p].cancelled THEN {"ctx"} ELSE {})

\* loadAsync's goroutine reaches its select: it takes one of the ready cases
\* (any of them when both are), sends one LoadResult and closes the channel;
\* with no case ready it parks
AsyncSelect(p) ==
    /\ lproc[p].pc = "spawned"
    /\ IF ReadyCases(p) = {}
       THEN lproc' = [lproc EXCEPT ![p].pc = "parked"]
       ELSE \E case \in ReadyCases(p) :
              lproc' = [lproc EXCEPT ![p] = [Forward(p, case) EXCEPT !.pc = "done",
                                                                    !.n = lproc[p].n + 1,
                                                                    !.closed = TRUE]]
    /\ UNCHANGED <<shardVars, histVars, procVars, ticks, newCall, flight, fidCtr, gets>>

\* loadAsync's goroutine, woken from its select by the case that fired first
AsyncWake(p) ==
    /\ lproc[p].pc \in {"wake_ch", "wake_ctx"}
    /\ lproc' = [lproc EXCEPT ![p] =
                    [Forward(p, IF lproc[p].pc = "wake_ch" THEN "ch" ELSE "ctx")
                        EXCEPT !.pc = "done", !.n = lproc[p].n + 1, !.closed = TRUE]]
    /\ UNCHANGED <<shardVars, histVars, procVars, ticks, newCall, flight, fidCtr, gets>>

\* every goroutine makes one call of load or loadAsync
NextLoader ==
    \/ \E p \in Procs, k \in Keys : CallLoad(p, k)
    \/ \E p \in Procs, k \in Keys : CallLoadAsync(p, k)
    \/ \E p \in Procs : Cancel(p)
    \/ \E k \in Keys, out \in {"nil", "loader", "ctx"} : LoaderFinish(k, out)
    \/ \E p \in Procs : LoadReturn(p)
    \/ \E p \in Procs : AsyncSelect(p)
    \/ \E p \in Procs : AsyncWake(p)

InitLoader == newCall = NoNewCall /\ InitLoadVars /\ InitNoShard

SpecLoader == InitLoader /\ [][NextLoader]_vars

(* ======================= claims ======================= *)
\* the entry the index holds for key k (0: none), and how many rotations ago
\* the generation owning its value was the active one
EntryOf(k) == Lookup(index, ents, seed, k)
Age(e) == idCtr - ents[e].genID

\* C1: whenever get(k) reports a hit, the value it returns is the value of the
\* most recent put(k, .) that completed before it.
C1_HitReturnsLatestPut ==
    (last.op = "get" /\ last.hit) => last.val = lastPut[last.key]

\* C2: put(k, v, w) immediately followed by get(k) is a hit that returns v.
C2_RoundTrip ==
    (last.op = "get" /\ last.expect # 0) => (last.hit /\ last.val = last.expect)
C2_Witness ==
    last.op = "get" /\ last.expect # 0 /\ last.hit /\ last.val = last.expect

\* C3: after every completed put, delete or rotate, the weights of the shard's
\* entries that are not in TEST state add up to at most the capacity.
LiveWeight == SumWeight(ents, {e \in IndexSet(index) : ~IsTest(ents[e].state)})
C3_LiveWeightWithinCapacity ==
    last.op \in {"put", "delete", "rotate"} => LiveWeight <= capacity

\* C7: when the generation of k's last put has seen N rotations since, k's
\* entry is in TEST state and get(k) reports a miss.
C7_ExpiredKeyMisses ==
    (last.op \in {"get", "fault"} /\ EntryOf(last.key) # 0
        /\ Age(EntryOf(last.key)) >= defaultGenerations)
    => (IsTest(ents[EntryOf(last.key)].state) /\ last.op = "get" /\ ~last.hit)

\* C8: a key put while generation g was active, with at least one and fewer
\* than N rotations since, neither deleted nor evicted for capacity, is a hit
\* that returns the value put.
CrossesGeneration(k) ==
    /\ EntryOf(k) # 0
    /\ ~IsTest(ents[EntryOf(k)].state)
    /\ Age(EntryOf(k)) >= 1
    /\ Age(EntryOf(k)) < defaultGenerations
C8_GenerationCrossingHit ==
    (last.op \in {"get", "fault"} /\ CrossesGeneration(last.key))
    => (last.op = "get" /\ last.hit /\ last.val = lastPut[last.key])
C8_Witness ==
    /\ last.op = "get" /\ CrossesGeneration(last.key)
    /\ Age(EntryOf(last.key)) = defaultGenerations - 1
    /\ last.hit /\ last.val = lastPut[last.key]

\* C9: after N consecutive rotations with no put in between, SizeBytes() is 0.
C9_SizeZeroAfterRevolution ==
    rotsNoPut = defaultGenerations => SizeBytes = 0

\* C5: a getOrLoad(k) that missed and loaded v without error is followed by a
\* getOrLoad(k) that hits with v.
C5_LoadedValueIsStored ==
    (last.op = "getOrLoad" /\ last.expect # 0) => (last.hit /\ last.val = last.expect)

\* C10: with no more puts (every run makes finitely many), the cache built by
\* New eventually is and stays empty: Len() = 0 and SizeBytes() = 0.
C10_EventuallyEmpty == <>[](CacheLen = 0 /\ SizeBytes = 0)


\* C4: single-flight loading: at no time do two goroutines run the loader for
\* the same key
C4_LoaderRunsOnce ==
    \A p, q \in Procs :
        (p # q /\ pc[p] = "loading" /\ pc[q] = "loading") => arg[p].key # arg[q].key

\* a get or getOrLoad of goroutine p has dereferenced a value pointer
Copied(p) == ret[p].op = "fault" \/ (ret[p].op \in {"get", "getOrLoad"} /\ ret[p].hit)

\* C6: the copy that get returns is never read from the arena of a freed
\* generation: when the copy is made the generation is resident
C6_CopyFromResidentGeneration ==
    \A p \in Procs : Copied(p) => ret[p].resident

\* the locking half of C6: the copy is made while the read lock is held
C6_CopyUnderReadLock ==
    \A p \in Procs : Copied(p) => ret[p].locked

\* C11: with an eject callback configured, every capacity eviction made by a
\* put invokes the callback exactly once, with the evicted entry's key and
\* reason Capacity
C11_EjectCallbackPerEviction ==
    (ejectCb /\ last.op = "put") =>
        /\ Len(ejects.calls) = Len(ejects.evicted)
        /\ \A i \in 1..Len(ejects.evicted) :
               /\ ejects.calls[i].key = ejects.evicted[i]
               /\ ejects.calls[i].reason = ReasonCapacity

\* C12: the evictions a put records under the shard lock are reported to the
\* eject callback after the lock is released, never while it is held
C12_CallbackAfterUnlock ==
    (ejectCb /\ ejects.evicted # <<>>) =>
        /\ ejects.calls # <<>>
        /\ \A i \in 1..Len(ejects.calls) : ~ejects.calls[i].locked


\* C13: every operation issued after Close fails with the Closed error
\* (last.op = "errClosed" stands for a call that returned it): it stores and
\* returns no value, runs no loader and does not crash
C13_ClosedAfterClose ==
    (status \in {"closed", "panic"} /\ last.op # "close") => last.op = "errClosed"


\* the shard counts New is meant to accept
PowersOfTwo == {1, 2, 4, 8, 16, 32, 64, 128}

FailedLoadStep == nops' = nops + 1 /\ last'.op = "getOrLoad" /\ last'.err

\* C16: a getOrLoad whose loader fails changes nothing of the cache: index,
\* entries, CLOCK ring and size, generation ring, Len and SizeBytes stay as they were
C16_FailedLoadChangesNothing ==
    [][FailedLoadStep =>
          /\ UNCHANGED <<index, ents, ring, size, gens, activeIdx, idCtr>>
          /\ CacheLen' = CacheLen
          /\ SizeBytes' = SizeBytes]_vars

C16_Witness == last.op = "getOrLoad" /\ last.err /\ CacheLen > 0 /\ status = "ok"


\* a step that completes put(k, v, w) right after the same put(k, v, w) completed
RepeatPutStep == last.op = "put" /\ last'.op = "put" /\ last'.again /\ nops' = nops + 1

\* the index slots and the CLOCK nodes that hold key k
KeySlots(idx, es, k) == {h \in Fingerprints : idx[h] # 0 /\ es[idx[h]].key = k}
KeyNodes(r, es, k) == {i \in 1..Len(r) : es[r[i]].key = k}

\* C19: the second of two identical puts changes nothing that can be observed:
\* still one entry for k, the same Len(), SizeBytes() and CLOCK size, and
\* get(k) reads v
C19_PutIdempotent ==
    [][RepeatPutStep =>
          /\ CacheLen' = CacheLen
          /\ SizeBytes' = SizeBytes
          /\ size' = size
          /\ Cardinality(KeySlots(index', ents', last'.key)) = 1
          /\ Cardinality(KeyNodes(ring', ents', last'.key))
                = Cardinality(KeyNodes(ring, ents, last'.key))
          /\ Deref(gens', ents'[Lookup(index', ents', seed', last'.key)].vptr) = {last'.val}]_vars

C19_Witness == last.op = "put" /\ last.again /\ EntryOf(last.key) # 0


\* C20: a put whose weight argument is below 1 is stored with weight 1
C20_WeightClampedToOne ==
    (last.op = "put" /\ last.weight < 1) => ents[EntryOf(last.key)].weight = 1


\* goroutine p has returned from load / has had its loadAsync result forwarded
LoadDone(p) == lproc[p].pc = "done" /\ ~lproc[p].async
AsyncDone(p) == lproc[p].pc = "done" /\ lproc[p].async

\* C15: when the loader of a call returned an error, load returns that error
\* to the goroutine that ran the loader and to every one that shared the call;
\* none of them gets a nil error
C15_LoaderErrorReturned ==
    \A p \in Procs :
        (LoadDone(p) /\ lproc[p].raw.err # "nil") =>
            /\ lproc[p].err # "nil"
            /\ (~lproc[p].cancelled => lproc[p].err = lproc[p].raw.err)

\* C17: a's context is cancelled while a and b wait in load for the same call
\* and b's context is not: a returns the cancellation error, the loader is not
\* aborted, and b gets the value of the loader (a loader that does not fail on
\* its own account)
C17_CancelledWaiterPeerSucceeds ==
    \A a, b \in Procs :
        (/\ a # b /\ LoadDone(a) /\ LoadDone(b)
         /\ lproc[a].early /\ b \in lproc[a].peers /\ lproc[a].fid = lproc[b].fid
         /\ ~lproc[b].cancelled /\ lproc[b].raw.err # "loader")
        => /\ lproc[a].err = "ctx"
           /\ lproc[b].raw.err = "nil"
           /\ lproc[b].err = "nil"
           /\ lproc[b].val = Loaded(lproc[b].key)

\* C18: loadAsync delivers exactly one LoadResult and closes the channel, and
\* when the caller's context was cancelled before the loader finished that
\* result carries the cancellation error
C18_AsyncOneResult ==
    \A p \in Procs :
        AsyncDone(p) =>
            /\ lproc[p].n = 1
            /\ lproc[p].closed
            /\ (lproc[p].early => lproc[p].err = "ctx")


\* C21: hits + misses equals the number of get and getOrLoad calls made on the
\* shard: every such call increments exactly one of the two counters, and no
\* other operation touches them
C21_CountersMatchGets == hits + misses = gets

C21_Witness == gets >= 2 /\ hits > 0 /\ misses > 0 /\ last.op = "getOrLoad"


\* the slot that was the active one j rotations ago
SlotBack(j) == (activeIdx + defaultGenerations - (j % defaultGenerations)) % defaultGenerations

\* the ids in the ring, read in creation order, are consecutive and end with the
\* newest id, which is the counter; no generation and no entry carries id 0
IdsInCreationOrder ==
    /\ idCtr >= 1
    /\ \A j \in 0..(defaultGenerations - 1) :
           gens[SlotBack(j)] = NoGen \/ gens[SlotBack(j)].id = idCtr - j
    /\ \A sl \in Slots : gens[sl] # NoGen => gens[sl].id >= 1
    /\ \A e \in EntIds : ents[e] # NoEnt => ents[e].genID \in 1..idCtr

\* C22: generation ids are strictly increasing in creation order: the first
\* generation has id 1, every generation created later has an id larger than
\* every id created before it, and id 0 is never given to a generation nor
\* stored in an entry
C22_GenerationIdsIncrease ==
    /\ (idCtr = 1 /\ gens[activeIdx].id = 1 /\ IdsInCreationOrder)
    /\ [][/\ IdsInCreationOrder'
          /\ idCtr' >= idCtr
          /\ (gens' # gens /\ activeIdx' # activeIdx) =>
                /\ idCtr' > idCtr
                /\ gens'[activeIdx'].id = idCtr'
                /\ \A sl \in Slots : gens[sl].id < idCtr']_vars

C22_Witness ==
    /\ idCtr > defaultGenerations
    /\ \E e \in EntIds : ents[e] # NoEnt /\ ents[e].genID > defaultGenerations


\* the key stored in the index slot of k's fingerprint (0: the slot is empty)
StoredKey(idx, es, sd, k) == IF idx[hash(sd, k)] = 0 THEN 0 ELSE es[idx[hash(sd, k)]].key

\* what the entry structs of keys other than k hold: key, value pointer, weight
\* and generation id
ForeignEntries(es, k) ==
    {<<es[e].key, es[e].vptr, es[e].weight, es[e].genID>> :
        e \in {f \in EntIds : es[f] # NoEnt /\ es[f].key # k}}

\* a step that completes a get, and one that completes a put
GetStep == gets' = gets + 1 /\ nops' = nops + 1
PutStep == last'.op = "put" /\ nops' = nops + 1

\* C23: fingerprint collisions leak no value across keys: a get of k reads a
\* value only from an entry whose stored key is k (so a key that was never put
\* never hits), and a put of k writes no entry struct of another key: it
\* updates in place only an entry stored under k, and otherwise leaves k with
\* an entry of its own
C23_NoLeakAcrossKeys ==
    [][/\ GetStep =>
             /\ (last'.hit \/ last'.op = "fault") =>
                    StoredKey(index, ents, seed, last'.key) = last'.key
             /\ last'.hit => lastPut[last'.key] # 0
       /\ PutStep =>
             /\ ForeignEntries(ents', last'.key) \subseteq ForeignEntries(ents, last'.key)
             /\ StoredKey(index', ents', seed', last'.key) = last'.key]_vars

\* two keys with one fingerprint: the second was put over the first, and a get
\* of the first then misses on the key comparison
C23_Witness ==
    /\ last.op = "get" /\ ~last.hit
    /\ lastPut[last.key] # 0
    /\ StoredKey(index, ents, seed, last.key) \notin {0, last.key}
    /\ lastPut[StoredKey(index, ents, seed, last.key)] # 0


\* key k is resident: the index holds an entry for it whose value is live
KeyResident(idx, es, sd, k) ==
    Lookup(idx, es, sd, k) # 0 /\ ~IsTest(es[Lookup(idx, es, sd, k)].state)

\* the shard holds key a and nothing else, a's weight being the whole capacity
AloneAtCapacity(a) ==
    /\ Len(ring) = 1 /\ ents[ring[1]].key = a
    /\ ents[ring[1]].weight = capacity
    /\ IndexSet(index) = {ring[1]}

\* C24: in a shard whose capacity equals one entry's weight w, put(a, ., w)
\* into the empty shard leaves a resident and get(a) hits with the value put;
\* the next put(b, ., w) of another key evicts a: afterwards a is not resident
\* and b is
C24_OneEntryCapacity ==
    [][/\ (PutStep /\ ring = <<>> /\ IndexSet(index) = {} /\ last'.weight = capacity) =>
             KeyResident(index', ents', seed', last'.key)
       /\ (GetStep /\ AloneAtCapacity(last'.key)) =>
             (last'.op = "get" /\ last'.hit /\ last'.val = lastPut[last'.key])
       /\ \A a \in Keys :
             (PutStep /\ AloneAtCapacity(a) /\ a # last'.key /\ last'.weight = capacity) =>
                /\ ~KeyResident(index', ents', seed', a)
                /\ KeyResident(index', ents', seed', last'.key)]_vars

C24_Witness ==
    /\ last.op = "put" /\ last.weight = capacity /\ nops = 2 /\ Len(ring) = 2
    /\ KeyResident(index, ents, seed, last.key)
    /\ \E a \in Keys : a # last.key /\ lastPut[a] # 0 /\ EntryOf(a) # 0
                        /\ IsTest(ents[EntryOf(a)].state)


\* the entry structs the CLOCK ring points to, in ring order from the hand
RingRecs(r, es) == [i \in 1..Len(r) |-> es[r[i]]]

\* a step that completes a delete
DeleteStep == last'.op = "delete" /\ nops' = nops + 1

\* C25: delete(k) on a shard holding k takes k out of the index, unlinks the
\* node of k's entry from the CLOCK ring (the other nodes stay, in order) and
\* adds one to evictions; from then on k stays absent and get(k) misses until
\* a put(k); delete of a key the index does not hold under that key changes
\* nothing, the evictions counter included
C25_DeleteRemovesKey ==
    [][/\ (DeleteStep /\ EntryOf(last'.key) # 0) =>
             /\ Lookup(index', ents', seed', last'.key) = 0
             /\ index'[hash(seed', last'.key)] = 0
             /\ RingRecs(ring', ents') =
                    RingRecs(IF InRing(ring, EntryOf(last'.key))
                             THEN ClockUnlink(ring, Position(ring, EntryOf(last'.key)))
                             ELSE ring, ents)
             /\ evictions' = evictions + 1
       /\ (DeleteStep /\ EntryOf(last'.key) = 0) =>
             UNCHANGED <<index, ents, ring, size, gens, activeIdx, idCtr,
                         hits, misses, evictions>>
       /\ \A k \in Keys :
             (EntryOf(k) = 0 /\ ~(last'.op \in {"put", "hang"} /\ last'.key = k
                                   /\ nops' = nops + 1)) =>
                Lookup(index', ents', seed', k) = 0
       /\ (GetStep /\ EntryOf(last'.key) = 0) => (last'.op = "get" /\ ~last'.hit)]_vars

\* a delete of a key that was held, with its node in the ring, has completed
C25_Witness ==
    /\ last.op = "delete" /\ evictions = 1 /\ lastPut[last.key] # 0
    /\ EntryOf(last.key) = 0 /\ ring # <<>>


\* Clock.Insert of one more entry of weight w in the current state: the heap
\* with a further entry struct, and the Clock the call ends with
ProbeId == MaxOps + 1
ProbeEnts(w) ==
    [e \in 1..ProbeId |-> IF e \in EntIds THEN ents[e]
                           ELSE [NoEnt EXCEPT !.key = 1, !.weight = w,
                                              !.genID = Active(gens, activeIdx).id]]
InsertProbe(w) == ClockInsert(ring, ProbeEnts(w), size, ProbeId, capacity)

\* C26: the eviction loop terminates: no call has hung on an unlinked node,
\* and in every state reached by puts, weight-changing updates, deletes and
\* rotations, the loop run by one more insert, of any weight, ends with
\* size <= capacity or with an empty ring
C26_EvictionLoopTerminates ==
    /\ status # "hang"
    /\ status = "ok" =>
          \A w \in 0..MaxWeight :
              /\ ~InsertProbe(w).hang
              /\ InsertProbe(w).size <= capacity \/ InsertProbe(w).ring = <<>>

\* an insert has run the loop over ghosts and entries whose weight an update
\* had changed, and the loop unlinked a node
C26_Witness ==
    /\ last.op = "put" /\ ejects.evicted # <<>>
    /\ Len(ring) < Cardinality({e \in EntIds : ents[e] # NoEnt}) + 1
    /\ \E e \in EntIds : ents[e] # NoEnt /\ IsTest(ents[e].state)
    /\ nops = MaxOps


\* a step of the eviction loop in which the hand visits the node ring[1]
VisitStep == pc[Writer] = "evict" /\ last'.op = "visit"

\* the hand moved on to the next node, all nodes staying on the ring
HandMoved == ring' = Tail(ring) \o <<ring[1]>>

\* the row of the state table for the entry the hand visits, as a relation
\* between the clock before and after the visit
TableRow ==
    LET h == ring[1]
        st == ents[h].state
    IN /\ \A e \in EntIds : e # h => ents'[e] = ents[e]
       /\ ents'[h] = [ents[h] EXCEPT !.state = ents'[h].state]
       /\ IF StateBits(st) = stateHot /\ HasRef(st)
          THEN ents'[h].state = stateHot /\ size' = size /\ HandMoved
          ELSE IF StateBits(st) = stateHot
          THEN ents'[h].state = stateCold /\ size' = size /\ HandMoved
          ELSE IF StateBits(st) = stateCold /\ HasRef(st)
          THEN ents'[h].state = stateHot /\ size' = size /\ HandMoved
          ELSE IF StateBits(st) = stateCold
          THEN ents'[h].state = stateTest /\ size' = size - ents[h].weight /\ HandMoved
          ELSE ents'[h].state = st /\ size' = size /\ ring' = Tail(ring)

\* C27: each visit of the hand applies exactly one row of the state table and
\* changes nothing else; an entry whose reference bit is set when the hand
\* visits it is not evicted by that visit; and the loop that put runs is the
\* sequence of these visits
C27_HandFollowsTable ==
    [][VisitStep =>
          /\ TableRow
          /\ (HasRef(ents[ring[1]].state) /\ ~IsTest(ents[ring[1]].state)) =>
                (~IsTest(ents'[ring[1]].state) /\ size' = size)
          /\ UNCHANGED <<capacity, index, gens, activeIdx, idCtr>>
          /\ EvictLoop(ring, ents, size, capacity)
                = IF status' = "hang"
                  THEN [MkClock(ring', ents', size') EXCEPT !.hang = TRUE]
                  ELSE EvictLoop(ring', ents', size', capacity)]_vars

\* the loop has visited a HOT entry with its reference bit set and left it HOT
C27_Witness ==
    /\ last.op = "visit" /\ last.state = stateHot + refBit
    /\ Len(ring) > 1
    /\ ents[ring[Len(ring)]].state = stateHot
    /\ ents[ring[Len(ring)]].key = last.key
    /\ size > capacity


\* a step in which the ring rotates: by shard.rotate, or inside a put
RotationStep == idCtr' # idCtr

\* the ids of the generations whose arenas are valid
ResidentIds(gs) == {gs[sl].id : sl \in Slots} \ {0}

\* C28: Rotate makes slot (active+1) mod N the active slot, holding a fresh
\* empty generation; it frees exactly the generation that was in that slot and
\* returns it (nothing during the first N-1 rotations); the generation active
\* before the call and every other resident generation stay resident
C28_RotateFreesOverwrittenSlot ==
    [][RotationStep =>
          LET slot == (activeIdx + 1) % defaultGenerations
              returned == RingRotate(gens, activeIdx, idCtr).dead
          IN /\ activeIdx' = slot
             /\ gens'[slot].bytes = 0
             /\ gens'[slot].id \notin ResidentIds(gens) \cup {0}
             /\ \A sl \in Slots \ {slot} : gens'[sl].id = gens[sl].id
             /\ ResidentIds(gens) \ ResidentIds(gens') = {gens[slot].id} \ {0}
             /\ gens[activeIdx].id \in ResidentIds(gens')
             /\ returned = gens[slot].id
             /\ (idCtr < defaultGenerations => returned = 0)
             /\ (idCtr >= defaultGenerations => returned = idCtr + 1 - defaultGenerations)
             /\ RingRotate(gens, activeIdx, idCtr).gens[slot] = gens'[slot]]_vars

\* a rotation has freed a generation while others stayed resident
C28_Witness ==
    /\ last.op = "rotate" /\ idCtr > defaultGenerations
    /\ Cardinality(ResidentIds(gens)) = defaultGenerations
    /\ ~Resident(gens, 1)


\* the entry structs of the shard (held by the index or the CLOCK ring) whose
\* value lives in generation g
EntriesOf(es, g) == {e \in EntIds : es[e] # NoEnt /\ es[e].genID = g}

\* the generation the next rotation frees (0: none)
Overwritten == gens[(activeIdx + 1) % defaultGenerations].id

\* C29: when a rotation frees generation g, every entry whose generation id is
\* g is in TEST state when the rotation completes; the weight of each of them
\* that was HOT or COLD has been taken off the CLOCK-Pro size, once; entries of
\* other generations keep their state and weight
C29_FreedGenerationBecomesTest ==
    [][/\ (RotationStep /\ Overwritten # 0) =>
             \A e \in EntriesOf(ents', Overwritten) : IsTest(ents'[e].state)
       /\ (RotationStep /\ last'.op = "rotate") =>
             /\ \A e \in EntriesOf(ents, Overwritten) :
                    /\ IsTest(ents'[e].state)
                    /\ ents'[e] = [ents[e] EXCEPT !.state = ents'[e].state]
             /\ size' = size - (IF Overwritten = 0 THEN 0
                                 ELSE SumWeight(ents, {e \in EntriesOf(ents, Overwritten) :
                                                          ~IsTest(ents[e].state)}))
             /\ \A e \in EntIds : (Overwritten = 0 \/ ents[e].genID # Overwritten) =>
                    ents'[e] = ents[e]
             /\ ring' = ring /\ index' = index]_vars

\* a rotation has freed the generation of one entry, which is now a ghost,
\* while an entry of a later generation is still live
C29_Witness ==
    /\ last.op = "rotate" /\ idCtr > defaultGenerations
    /\ \E e, f \in RingSet(ring) :
          /\ ents[e].genID = idCtr - defaultGenerations /\ IsTest(ents[e].state)
          /\ ents[f].genID > ents[e].genID /\ ~IsTest(ents[f].state)
    /\ size > 0


\* the per-generation budget: cap_bytes / N, or cap_bytes when that is 0
Budget == IF capacity \div defaultGenerations = 0 THEN capacity
          ELSE capacity \div defaultGenerations

\* C30: every put that stores a value, insert or update, adds its weight to
\* the accumulator of the generation that is active, and rotates the ring when
\* the accumulator then exceeds the per-generation budget (and only then)
C30_PutFeedsAccumulator ==
    [][PutStep =>
          LET acc == gens[activeIdx].bytes + last'.weight
          IN /\ gens'[activeIdx].bytes = acc
             /\ IF acc > Budget
                THEN activeIdx' = (activeIdx + 1) % defaultGenerations /\ idCtr' = idCtr + 1
                ELSE activeIdx' = activeIdx /\ idCtr' = idCtr]_vars


\* a step that completes a put of a key the index holds: the fast path
UpdateStep == PutStep /\ EntryOf(last'.key) # 0

\* a rotation right after an update, freeing the generation that held the
\* value the update replaced
FreesPrevious ==
    /\ last.op = "put" /\ last.prevGen # 0 /\ last.prevGen = Overwritten
    /\ last'.op = "rotate"

\* C31: an update put(k, v2, w2) of an existing key moves the entry to the
\* active generation (generation id = id of the active generation, weight w2,
\* value v2 in the active arena); freeing the generation that held the previous
\* value then leaves the state of k's entry as it was (it is not turned into
\* TEST) and k's entry still reads v2
C31_UpdateMovesToActive ==
    [][/\ UpdateStep =>
             LET e == Lookup(index', ents', seed', last'.key)
             IN /\ e = EntryOf(last'.key)
                /\ ents'[e].genID = gens'[activeIdx'].id
                /\ ents'[e].weight = last'.weight
                /\ ents'[e].vptr = [arena |-> gens'[activeIdx'].id, val |-> last'.val]
                /\ ents'[e].state = ents[e].state
       /\ FreesPrevious =>
             LET e == Lookup(index', ents', seed', last.key)
             IN /\ e # 0 /\ e = EntryOf(last.key)
                /\ ents'[e].state = ents[e].state
                /\ ents'[e].genID # last.prevGen
                /\ Deref(gens', ents'[e].vptr) = {last.val}]_vars

\* an update moved a live entry out of the oldest generation, and the rotation
\* that freed that generation has left the entry live and readable
C31_Witness ==
    /\ last.op = "rotate" /\ last.prevGen # 0 /\ ~Resident(gens, last.prevGen)
    /\ EntryOf(last.key) # 0
    /\ ~IsTest(ents[EntryOf(last.key)].state)
    /\ ents[EntryOf(last.key)].genID = idCtr - 1
    /\ Deref(gens, ents[EntryOf(last.key)].vptr) = {last.val}


\* the entries the index holds, and the generation of an entry is resident
Indexed == IndexSet(index)
InResidentGeneration(e) == Resident(gens, ents[e].genID)

\* C32: every entry in the index is in TEST state or has the generation id of
\* a generation that is resident in the ring
C32_IndexedLiveOrGhost ==
    \A e \in Indexed : IsTest(ents[e].state) \/ InResidentGeneration(e)


\* goroutine p is on the fast path of put, holding the read lock: its next
\* instruction is arena.NewValue on the arena of the active generation
Allocating(p) == pc[p] = "put_update" /\ p \in readers

\* C33: allocations in the shard's arena are serialised: no two goroutines are
\* at an allocation on the active arena at the same time
C33_AllocationsSerialized ==
    \A p, q \in Procs : (p # q /\ Allocating(p)) => ~Allocating(q)


\* a step in which the get of goroutine p stores the state byte (the second
\* half of SetReferenced) of an entry the shard still holds
RefStoreStep(p) ==
    /\ pc[p] = "get_copy" /\ pc'[p] = "idle"
    /\ pent[p] \in RingSet(ring) \cup Indexed

\* C34: the reference-bit update of a get is atomic with respect to the hand
\* sweep: the get changes the R bit of the state byte and nothing else, so the
\* 2-bit state the sweep wrote is still there after the get
C34_ReferenceUpdateAtomic ==
    [][\A p \in Procs :
          RefStoreStep(p) =>
             /\ ents'[pent[p]].state = SetReferenced(ents[pent[p]].state)
             /\ StateBits(ents'[pent[p]].state) = StateBits(ents[pent[p]].state)]_vars


\* key k is a ghost: the index holds its entry, in TEST state
Ghost(k) == EntryOf(k) # 0 /\ IsTest(ents[EntryOf(k)].state)

\* get(k) called now reports found: the index holds an entry under k (shard.get
\* looks at nothing else before it counts a hit)
Retrievable(k) == EntryOf(k) # 0

\* distinct keys were inserted, each with weight w, and nothing else was called
InsertedOnly(w) ==
    /\ last.op = "put" /\ gets = 0 /\ evictions = 0
    /\ Cardinality({e \in EntIds : ents[e] # NoEnt}) = nops
    /\ \A e, f \in EntIds :
          (ents[e] # NoEnt /\ ents[f] # NoEnt) =>
             (ents[e].weight = w /\ (e # f => ents[e].key # ents[f].key))

\* C35: an entry evicted for capacity (TEST) is not resident: get of its key
\* reports a miss and Len() does not count it; so after inserts of distinct
\* keys of one weight w the retrievable keys number at most capacity / w
C35_GhostNotResident ==
    /\ ShardLen = Cardinality({e \in Indexed : ~IsTest(ents[e].state)})
    /\ \A w \in Weights :
          InsertedOnly(w) => Cardinality({k \in Keys : Retrievable(k)}) * w <= capacity
    /\ [][(GetStep /\ Ghost(last'.key)) => (last'.op = "get" /\ ~last'.hit)]_vars


\* C36: in every state reached by inserts, weight-changing updates, deletes
\* (of ghosts too) and rotations, the CLOCK-Pro size counter equals the sum of
\* the current weights of the ring's entries in HOT or COLD state, and is
\* never negative
C36_SizeIsLiveRingWeight ==
    /\ size = LiveRingWeight
    /\ size >= 0


\* goroutine p, which found its key absent, now takes the write lock and
\* completes its put after another goroutine has inserted the same key
LateInsertStep(p) ==
    /\ pc[p] = "put_insert" /\ pc'[p] = "idle"
    /\ EntryOf(arg[p].key) # 0

\* C37: two concurrent puts of the same absent key leave exactly one entry for
\* the key: the put that takes the lock second adds no second node to the
\* CLOCK-Pro ring, and adds the weight neither to the CLOCK-Pro size nor to
\* the generation accumulators a second time
C37_ConcurrentPutsOneEntry ==
    [][\A p \in Procs :
          LateInsertStep(p) =>
             /\ Cardinality(KeyNodes(ring', ents', arg[p].key))
                   <= Cardinality(KeyNodes(ring, ents, arg[p].key))
             /\ Cardinality(KeyNodes(ring', ents', arg[p].key)) <= 1
             /\ size' <= size
             /\ SumBytes(gens', Slots) <= SumBytes(gens, Slots)]_vars


\* the ring nodes that point to entry e
NodesOf(e) == {i \in 1..Len(ring) : ring[i] = e}

\* C38: the index and the CLOCK-Pro ring describe the same entries: every
\* entry stored in the index has exactly one ring node, and every ring node
\* points to an entry stored in the index
C38_IndexMatchesRing ==
    /\ \A e \in Indexed : Cardinality(NodesOf(e)) = 1
    /\ \A i \in 1..Len(ring) : ring[i] \in Indexed


\* a step that completes put(k, v, w) of a key whose entry is a ghost, with a
\* weight the capacity admits
ReputGhostStep == PutStep /\ Ghost(last'.key) /\ last'.weight <= capacity

\* C39: re-putting a key whose entry is a ghost makes the key resident again:
\* after the put its entry is not in TEST state, its weight is included in the
\* CLOCK-Pro size, and it has a node on the ring, where the hand can evict it
C39_ReputGhostResident ==
    [][ReputGhostStep =>
          LET e == Lookup(index', ents', seed', last'.key)
          IN /\ e # 0
             /\ ~IsTest(ents'[e].state)
             /\ InRing(ring', e)
             /\ size' >= ents'[e].weight]_vars


\* no goroutine is inside a put
NoPutInProgress == \A p \in Procs : pc[p] \notin {"put_update", "put_insert"}

\* a step that completes a put which adds to the accumulator and takes it above
\* the per-generation budget
OverBudgetStep ==
    /\ PutStep /\ EntryOf(last'.key) = 0
    /\ gens[activeIdx].bytes + last'.weight > Budget

\* C40: whenever no put is in progress the accumulated bytes of the active
\* generation are at most the per-generation budget: a put that pushes the
\* accumulator above the budget rotates before it returns, and the generation
\* that becomes active starts with accumulator 0
C40_ActiveWithinBudget ==
    /\ NoPutInProgress => gens[activeIdx].bytes <= Budget
    /\ [][/\ OverBudgetStep =>
                /\ activeIdx' = NextIdx(activeIdx) /\ idCtr' = idCtr + 1
                /\ gens'[activeIdx].bytes = gens[activeIdx].bytes + last'.weight
                /\ gens'[activeIdx'].bytes = 0
          /\ RotationStep =>
                gens'[activeIdx'] = [id |-> idCtr', bytes |-> 0]]_vars

\* a put has taken the accumulator of its generation above the budget and has
\* rotated: the generation it left holds more than the budget, the active one 0
C40_Witness ==
    /\ last.op = "put" /\ idCtr > 1
    /\ gens[SlotBack(1)].bytes > Budget
    /\ gens[activeIdx].bytes = 0
    /\ EntryOf(last.key) # 0 /\ ents[EntryOf(last.key)].genID = gens[SlotBack(1)].id

===============================================================================
